---- MODULE Spec2Model ----
(***************************************************************************)
(* Model of hw_module_1.py: the contact manager's fields (Name, Phone,      *)
(* Birthday), Record, AddressBook, the upcoming-birthdays query and the     *)
(* command handlers wrapped by input_error.                                 *)
(*                                                                          *)
(* A Python str is a sequence of characters; a character is the one-letter  *)
(* string naming it, or "U+xxxx" for a character outside ASCII.  None is    *)
(* the empty sequence: no Field value of the program is ever empty.  An     *)
(* operation that can raise returns a record whose exc field names the      *)
(* exception class ("" when it returned normally).                          *)
(***************************************************************************)
EXTENDS Integers, Sequences, FiniteSets, TLC

VARIABLES data, last

vars == <<data, last>>

None == << >>

(* ------------------------------------------------------------------ str *)

AsciiDigits == {"0", "1", "2", "3", "4", "5", "6", "7", "8", "9"}

\* U+0662 ARABIC-INDIC DIGIT TWO is a decimal digit (category Nd);
\* U+00B2 SUPERSCRIPT TWO is numeric (category No) but no decimal digit.
DecimalChars == AsciiDigits \cup {"U+0662"}

NumericChars == DecimalChars \cup {"U+00B2"}

Whitespace == {" "}

\* int() of one decimal digit
DigitVal(c) ==
  CASE c = "0" -> 0 [] c = "1" -> 1 [] c = "2" -> 2 [] c = "3" -> 3
    [] c = "4" -> 4 [] c = "5" -> 5 [] c = "6" -> 6 [] c = "7" -> 7
    [] c = "8" -> 8 [] c = "9" -> 9 [] c = "U+0662" -> 2

RECURSIVE int(_)
int(s) ==
  IF Len(s) = 0 THEN 0
  ELSE 10 * int(SubSeq(s, 1, Len(s) - 1)) + DigitVal(s[Len(s)])

\* str.isnumeric(): at least one character and every character numeric
isnumeric(s) == Len(s) > 0 /\ \A i \in 1..Len(s) : s[i] \in NumericChars

\* str.strip() leaves something: some character is not whitespace
strip_nonempty(s) == \E i \in 1..Len(s) : s[i] \notin Whitespace

(* --------------------------------------------------------------- fields *)

PhoneLen == 10

\* Name.__init__
Name(value) ==
  IF ~strip_nonempty(value) THEN [exc |-> "ValueError", value |-> None]
  ELSE [exc |-> "", value |-> value]

\* Phone.phone_validation
phone_validation(value) == Len(value) = PhoneLen /\ isnumeric(value)

\* Phone.__init__
Phone(value) ==
  IF ~phone_validation(value) THEN [exc |-> "ValueError", value |-> None]
  ELSE [exc |-> "", value |-> value]

Window == 7

(* ------------------------------------------------------------- calendar *)

is_leap(y) == y % 4 = 0 /\ (y % 100 # 0 \/ y % 400 = 0)

days_in_month(y, m) ==
  IF m = 2 THEN (IF is_leap(y) THEN 29 ELSE 28)
  ELSE IF m \in {4, 6, 9, 11} THEN 30 ELSE 31

\* datetime.date(y, m, d) succeeds
valid_date(y, m, d) ==
  /\ y >= 1 /\ y <= 9999
  /\ m >= 1 /\ m <= 12
  /\ d >= 1 /\ d <= days_in_month(y, m)

RECURSIVE days_before_month(_, _)
days_before_month(y, m) ==
  IF m = 1 THEN 0 ELSE days_before_month(y, m - 1) + days_in_month(y, m - 1)

days_before_year(y) ==
  (y - 1) * 365 + (y - 1) \div 4 - (y - 1) \div 100 + (y - 1) \div 400

\* date.toordinal(): 1 for 0001-01-01
toordinal(dt) ==
  days_before_year(dt.year) + days_before_month(dt.year, dt.month) + dt.day

\* date.weekday(): Monday is 0, Sunday is 6
weekday(dt) == (toordinal(dt) + 6) % 7

\* date + timedelta(days = 1)
next_day(dt) ==
  IF dt.day < days_in_month(dt.year, dt.month)
    THEN [dt EXCEPT !.day = dt.day + 1]
  ELSE IF dt.month < 12
    THEN [year |-> dt.year, month |-> dt.month + 1, day |-> 1]
  ELSE [year |-> dt.year + 1, month |-> 1, day |-> 1]

\* date + timedelta(days = n)
RECURSIVE add_days(_, _)
add_days(dt, n) == IF n = 0 THEN dt ELSE add_days(next_day(dt), n - 1)

\* date.replace(year = y): ValueError when the day does not exist in year y
replace_year(dt, y) ==
  IF valid_date(y, dt.month, dt.day)
    THEN [exc |-> "", date |-> [dt EXCEPT !.year = y]]
  ELSE [exc |-> "ValueError", date |-> dt]

(* ------------------------------------------- strptime(value, "%d.%m.%Y") *)

\* %d  is  3[0-1]|[1-2]\d|0[1-9]|[1-9]| [1-9]
re_d(s) ==
  \/ Len(s) = 2 /\ s[1] = "3" /\ s[2] \in {"0", "1"}
  \/ Len(s) = 2 /\ s[1] \in {"1", "2"} /\ s[2] \in DecimalChars
  \/ Len(s) = 2 /\ s[1] = "0" /\ s[2] \in AsciiDigits \ {"0"}
  \/ Len(s) = 1 /\ s[1] \in AsciiDigits \ {"0"}
  \/ Len(s) = 2 /\ s[1] = " " /\ s[2] \in AsciiDigits \ {"0"}

\* %m  is  1[0-2]|0[1-9]|[1-9]
re_m(s) ==
  \/ Len(s) = 2 /\ s[1] = "1" /\ s[2] \in {"0", "1", "2"}
  \/ Len(s) = 2 /\ s[1] = "0" /\ s[2] \in AsciiDigits \ {"0"}
  \/ Len(s) = 1 /\ s[1] \in AsciiDigits \ {"0"}

\* %Y  is  \d\d\d\d
re_Y(s) == Len(s) = 4 /\ \A i \in 1..4 : s[i] \in DecimalChars

\* int() of the %d group, whose leading space int() ignores
int_d(s) == IF s[1] = " " THEN int(Tail(s)) ELSE int(s)

\* The places (i, j) of the two "." of a match of the format's regular
\* expression at the start of s.  No group matches a ".", so there is at
\* most one.
strptime_match(s) ==
  {ij \in (1..Len(s)) \X (1..Len(s)) :
     /\ ij[1] < ij[2]
     /\ s[ij[1]] = "." /\ s[ij[2]] = "."
     /\ re_d(SubSeq(s, 1, ij[1] - 1))
     /\ re_m(SubSeq(s, ij[1] + 1, ij[2] - 1))
     /\ ij[2] + 4 <= Len(s)
     /\ re_Y(SubSeq(s, ij[2] + 1, ij[2] + 4))}

\* datetime(year, month, day) of the converted groups
strptime_date(y, m, d) ==
  IF ~valid_date(y, m, d) THEN [exc |-> "ValueError", date |-> None]
  ELSE [exc |-> "", date |-> [year |-> y, month |-> m, day |-> d]]

\* The match found, with its "." at i and j: nothing may follow it
strptime_found(s, i, j) ==
  IF Len(s) # j + 4 THEN [exc |-> "ValueError", date |-> None]
  ELSE strptime_date(int(SubSeq(s, j + 1, j + 4)),
                     int(SubSeq(s, i + 1, j - 1)),
                     int_d(SubSeq(s, 1, i - 1)))

strptime_of(s, found) ==
  IF found = {} THEN [exc |-> "ValueError", date |-> None]
  ELSE strptime_found(s, (CHOOSE x \in found : TRUE)[1],
                         (CHOOSE x \in found : TRUE)[2])

\* datetime.strptime(value, "%d.%m.%Y").date()
strptime(s) == strptime_of(s, strptime_match(s))

\* Birthday.__init__: the value is kept as the string given
Birthday(value) ==
  IF strptime(value).exc # "" THEN [exc |-> "ValueError", value |-> None]
  ELSE [exc |-> "", value |-> value]

\* "%02d"
pad2(n) == <<CHOOSE c \in AsciiDigits : DigitVal(c) = n \div 10,
             CHOOSE c \in AsciiDigits : DigitVal(c) = n % 10>>

\* date.strftime("%d.%m.%Y"), for a year of four digits
strftime(dt) ==
  pad2(dt.day) \o <<".">> \o pad2(dt.month) \o <<".">>
    \o pad2(dt.year \div 100) \o pad2(dt.year % 100)

(* --------------------------------------------------------------- Record *)

\* An exception leaving a method of a record, and a normal return.
Raised(exc, rec) == [exc |-> exc, rec |-> rec]

Done(rec) == [exc |-> "", rec |-> rec]

\* Record.__init__, given Name(name)
Record_of(n) ==
  IF n.exc # "" THEN Raised(n.exc, None)
  ELSE Done([name |-> n.value, phones |-> << >>, birthday |-> None])

Record(name) == Record_of(Name(name))

\* Record.add_birthday, given Birthday(birthday)
add_birthday_of(rec, b) ==
  IF b.exc # "" THEN Raised(b.exc, rec)
  ELSE Done([rec EXCEPT !.birthday = b.value])

add_birthday(rec, birthday) == add_birthday_of(rec, Birthday(birthday))

\* add_phone without the validation of Phone(): the string is kept as given
add_phone_unchecked(rec, phone) ==
  Done([rec EXCEPT !.phones = Append(@, phone)])

\* Record.add_phone, given Phone(phone)
add_phone_of(rec, p) ==
  IF p.exc # "" THEN Raised(p.exc, rec)
  ELSE Done([rec EXCEPT !.phones = Append(@, p.value)])

add_phone(rec, phone) == add_phone_of(rec, Phone(phone))

\* The least member of a non-empty set of places
first_of(hits) == CHOOSE i \in hits : \A j \in hits : i <= j

\* Record.find_phone.  A Phone object is known by its place in self.phones:
\* the place of the first entry whose value is phone, 0 for None.
find_phone(rec, phone) ==
  IF \E i \in 1..Len(rec.phones) : rec.phones[i] = phone
    THEN first_of({i \in 1..Len(rec.phones) : rec.phones[i] = phone})
  ELSE 0

\* remove_phone with the removal guarded by "if phone_number:"
list_remove_quiet(rec, x) ==
  IF x = 0 THEN Done(rec)
  ELSE Done([rec EXCEPT !.phones =
               SubSeq(@, 1, x - 1) \o SubSeq(@, x + 1, Len(@))])

\* list.remove(x), x a Phone object of the list or None.  Phone defines no
\* __eq__, so an entry equals x only when it is x; no entry equals None.
list_remove(rec, x) ==
  IF x = 0 THEN Raised("ValueError", rec)
  ELSE Done([rec EXCEPT !.phones =
               SubSeq(@, 1, x - 1) \o SubSeq(@, x + 1, Len(@))])

\* Record.remove_phone
remove_phone(rec, phone) == list_remove(rec, find_phone(rec, phone))

\* edit_phone without its call of remove_phone
edit_phone_keep_old(a, old_phone) == a

\* Record.edit_phone after its check: add_phone has run, remove_phone follows
edit_phone_added(a, old_phone) ==
  IF a.exc # "" THEN a ELSE remove_phone(a.rec, old_phone)

\* edit_phone with remove_phone called before add_phone
edit_phone_remove_first(rec, old_phone, new_phone) ==
  IF find_phone(rec, old_phone) = 0 THEN Raised("ValueError", rec)
  ELSE add_phone(
         [rec EXCEPT !.phones =
            SubSeq(@, 1, find_phone(rec, old_phone) - 1)
              \o SubSeq(@, find_phone(rec, old_phone) + 1, Len(@))],
         new_phone)

\* Record.edit_phone
edit_phone(rec, old_phone, new_phone) ==
  IF find_phone(rec, old_phone) = 0 THEN Raised("ValueError", rec)
  ELSE edit_phone_added(add_phone(rec, new_phone), old_phone)

\* "; ".join(i.value for i in self.phones)
RECURSIVE join(_, _)
join(sep, strs) ==
  IF Len(strs) = 0 THEN << >>
  ELSE IF Len(strs) = 1 THEN strs[1]
  ELSE strs[1] \o sep \o join(sep, Tail(strs))

\* Record.__str__: the pieces of the f-string
Record_str(rec) ==
  <<"Contact name: ", rec.name, ", phones: ", join(<<";", " ">>, rec.phones)>>

(* ---------------------------------------------------------- AddressBook *)

\* self.data is a dict: its entries in insertion order, one per key.

\* The place of key in the dict, 0 when the key is absent.
lookup(d, key) ==
  IF \E i \in 1..Len(d) : d[i].key = key
    THEN CHOOSE i \in 1..Len(d) : d[i].key = key
  ELSE 0

\* self.data[key] = record: a new key goes last, a known key keeps its place
setitem(d, i, key, record) ==
  IF i = 0 THEN Append(d, [key |-> key, rec |-> record])
  ELSE [d EXCEPT ![i] = [key |-> key, rec |-> record]]

\* add_record as self.data.setdefault(name, record): the first record stays
add_record_keep_first(d, record) ==
  IF lookup(d, record.name) = 0
    THEN Append(d, [key |-> record.name, rec |-> record])
  ELSE d

\* AddressBook.add_record
add_record(d, record) ==
  setitem(d, lookup(d, record.name), record.name, record)

\* AddressBook.find.  A Record object is known by its place in the dict,
\* 0 for None.
find(d, name) == lookup(d, name)

\* self.data.pop(name, None): the dict left and the record removed, if any
pop(d, i) ==
  IF i = 0 THEN [data |-> d, value |-> None]
  ELSE [data |-> SubSeq(d, 1, i - 1) \o SubSeq(d, i + 1, Len(d)),
        value |-> d[i].rec]

\* AddressBook.delete
delete(d, name) == pop(d, lookup(d, name))

\* AddressBook.__str__: one line per record
AddressBook_str(d) == [i \in 1..Len(d) |-> Record_str(d[i].rec)]

\* get_upcoming_birthdays, lines 94 to 106: the entries one record adds
upcoming_entry(name, birthday_this_year, delta) ==
  IF 0 <= delta /\ delta <= Window
    THEN <<[name |-> name,
            birthday |->
              strftime(IF weekday(birthday_this_year) = 5
                         THEN add_days(birthday_this_year, 2)
                       ELSE IF weekday(birthday_this_year) = 6
                         THEN add_days(birthday_this_year, 1)
                       ELSE birthday_this_year)]>>
  ELSE << >>

\* lines 94 and after, given the outcome of the replace() calls
upcoming_delta(name, r, today) ==
  IF r.exc # "" THEN [exc |-> r.exc, out |-> << >>]
  ELSE [exc |-> "",
        out |-> upcoming_entry(name, r.date,
                               toordinal(r.date) - toordinal(today))]

\* lines 91 and 92, given the outcome of the first replace() call
upcoming_passed(r, today) ==
  IF r.exc # "" THEN r
  ELSE IF toordinal(r.date) < toordinal(today)
    THEN replace_year(r.date, today.year + 1)
  ELSE r

\* The loop body of get_upcoming_birthdays for one record: the entries it
\* appends, or the exception it raises.
upcoming_one(record, today) ==
  IF record.birthday = None THEN [exc |-> "", out |-> << >>]
  ELSE upcoming_delta(
         record.name,
         upcoming_passed(
           replace_year(strptime(record.birthday).date, today.year), today),
         today)

\* The loop of get_upcoming_birthdays: an exception ends it
upcoming_append(first, one) ==
  IF one.exc # "" THEN one
  ELSE [exc |-> "", out |-> first.out \o one.out]

upcoming_step(first, record, today) ==
  IF first.exc # "" THEN first
  ELSE upcoming_append(first, upcoming_one(record, today))

\* AddressBook.get_upcoming_birthdays, today being date.today()
RECURSIVE get_upcoming_birthdays(_, _)
get_upcoming_birthdays(d, today) ==
  IF Len(d) = 0 THEN [exc |-> "", out |-> << >>]
  ELSE upcoming_step(
         get_upcoming_birthdays(SubSeq(d, 1, Len(d) - 1), today),
         d[Len(d)].rec, today)

(* ------------------------------------------------------------- commands *)

\* A handler's outcome: the exception it raised ("" for none), the book it
\* leaves, and what it returned: a fixed message or a computed value.
Raise(exc, d) == [exc |-> exc, data |-> d, msg |-> "", value |-> None]

Return(d, msg, value) == [exc |-> "", data |-> d, msg |-> msg, value |-> value]

\* input_error: the message that stands for each exception class
input_error(r) ==
  IF r.exc = "" THEN r
  ELSE IF r.exc = "KeyError" THEN Return(r.data, "Contact is not found.", None)
  ELSE IF r.exc = "ValueError" THEN Return(r.data, "Insufficient data", None)
  ELSE IF r.exc = "IndexError"
    THEN Return(r.data, "Enter a name of contact.", None)
  ELSE IF r.exc = "AttributeError"
    THEN Return(r.data, "Contact not found.", None)
  ELSE r

\* The record object at place i of the book in its new state.
set_record(d, i, rec) == [d EXCEPT ![i].rec = rec]

\* A method of the record at place i has run with outcome r: an exception
\* leaves the handler, otherwise the handler returns message.
called(book, i, r, message, value) ==
  IF r.exc # "" THEN Raise(r.exc, set_record(book, i, r.rec))
  ELSE Return(set_record(book, i, r.rec), message, value)

\* add_contact, lines 179 to 181: record is in the book at place i
add_contact_phone(book, i, phone, message) ==
  IF phone # << >>
    THEN called(book, i, add_phone(book[i].rec, phone), message, None)
  ELSE Return(book, message, None)

\* add_contact, lines 176 to 178, given Record(name)
add_contact_new(book, made, phone) ==
  IF made.exc # "" THEN Raise(made.exc, book)
  ELSE add_contact_phone(add_record(book, made.rec),
                         find(add_record(book, made.rec), made.rec.name),
                         phone, "Contact added.")

\* add_contact, without its decorator
add_contact_body(args, book) ==
  IF Len(args) < 2 THEN Raise("ValueError", book)
  ELSE IF find(book, args[1]) = 0
    THEN add_contact_new(book, Record(args[1]), args[2])
  ELSE add_contact_phone(book, find(book, args[1]), args[2],
                         "Contact updated.")

add_contact(args, book) == input_error(add_contact_body(args, book))

\* change_contact, line 187: record is find(name)
change_contact_edit(book, i, name, old_phone, new_phone) ==
  IF i = 0 THEN Raise("AttributeError", book)
  ELSE called(book, i, edit_phone(book[i].rec, old_phone, new_phone),
              "Phone number updated.", name)

change_contact_body(args, book) ==
  IF Len(args) # 3 THEN Raise("ValueError", book)
  ELSE change_contact_edit(book, find(book, args[1]),
                           args[1], args[2], args[3])

change_contact(args, book) == input_error(change_contact_body(args, book))

\* get_phone, lines 194 and 195: record is find(name)
get_phone_of(book, i, name) ==
  IF i = 0 THEN Raise("AttributeError", book)
  ELSE Return(book, "",
              name \o <<":", " ">> \o join(<<";", " ">>, book[i].rec.phones))

get_phone_body(args, book) ==
  IF Len(args) = 0 THEN Raise("IndexError", book)
  ELSE get_phone_of(book, find(book, args[1]), args[1])

get_phone(args, book) == input_error(get_phone_body(args, book))

\* the command "all": print(book)
show_all(book) == Return(book, "", AddressBook_str(book))

\* the handler add_birthday, line 206: record is find(name)
add_birthday_to(book, i, birthday) ==
  IF i = 0 THEN Raise("AttributeError", book)
  ELSE called(book, i, add_birthday(book[i].rec, birthday),
              "Birthday added", None)

add_birthday_body(args, book) ==
  IF Len(args) # 2 THEN Raise("ValueError", book)
  ELSE add_birthday_to(book, find(book, args[1]), args[2])

add_birthday_cmd(args, book) == input_error(add_birthday_body(args, book))

\* show_birthday, lines 213 to 215: record is find(name)
show_birthday_of(book, i) ==
  IF i # 0 /\ book[i].rec.birthday # None
    THEN Return(book, "", book[i].rec.birthday)
  ELSE Return(book, "No birthday found", None)

show_birthday_body(args, book) ==
  IF Len(args) = 0 THEN Raise("IndexError", book)
  ELSE show_birthday_of(book, find(book, args[1]))

show_birthday(args, book) == input_error(show_birthday_body(args, book))

\* birthdays, given the outcome of get_upcoming_birthdays
birthdays_of(book, u) ==
  IF u.exc # "" THEN Raise(u.exc, book) ELSE Return(book, "", u.out)

birthdays_body(args, book, today) ==
  birthdays_of(book, get_upcoming_birthdays(book, today))

birthdays(args, book, today) == input_error(birthdays_body(args, book, today))

(* ---------------------------------------------------------------- state *)

\* data is the AddressBook's dict.  last is the latest call and what came
\* back: the operation, its arguments, date.today() if it was read, the
\* exception that escaped, and the message or value returned.
Call(op, args, env, r) ==
  [op |-> op, args |-> args, env |-> env,
   exc |-> r.exc, msg |-> r.msg, value |-> r.value]

NoCall == Call("", << >>, None, Return(<< >>, "", None))

MaxPhones == 2

MaxRecordPhones == 3

Bounded(d, n) == \A i \in 1..Len(d) : Len(d[i].rec.phones) <= n

(* --------------------------------------------------------------- inputs *)

NameA == <<"a">>

NameB == <<"b">>

Names == {NameA, NameB}

Zeros == <<"0", "0", "0", "0", "0", "0", "0", "0", "0", "0">>

Zeros2 == <<"0", "0", "0", "0", "0", "0", "0", "0", "0", "U+00B2">>

Zeros9 == <<"0", "0", "0", "0", "0", "0", "0", "0", "0">>

ValidPhones == {Zeros, Zeros2}

PhoneArgs == ValidPhones \cup {Zeros9}

Nines == <<"9", "9", "9", "9", "9", "9", "9", "9", "9", "9">>

RecPhoneArgs == PhoneArgs \cup {Nines}

Short12 == <<"1", ".", "2", ".", "2", "0", "2", "4">>

April31 == <<"3", "1", ".", "0", "4", ".", "2", "0", "2", "4">>

ValidBirthdays == {Short12}

BirthdayArgs == ValidBirthdays \cup {April31}

Day(y, m, d) == [year |-> y, month |-> m, day |-> d]

FewDays == {Day(2024, 1, 29), Day(2024, 2, 2)}

(* ------------------------------------------------- the command loop, main *)

Init == data = << >> /\ last = NoCall

AddArgs ==
  {<< >>, <<NameA>>, <<NameA, Zeros, Zeros>>}
    \cup {<<n, p>> : n \in Names, p \in PhoneArgs}

ChangeArgs ==
  {<< >>, <<NameA, Zeros>>}
    \cup {<<n, o, p>> : n \in Names, o \in ValidPhones, p \in PhoneArgs}

NameArgs == {<< >>} \cup {<<n>> : n \in Names}

AddBirthdayArgs ==
  {<< >>, <<NameA>>} \cup {<<n, b>> : n \in Names, b \in BirthdayArgs}

\* One turn of the loop: the handler's outcome r becomes the book and the
\* line printed.
Do(op, args, env, r) ==
  /\ Bounded(r.data, MaxPhones)
  /\ data' = r.data
  /\ last' = Call(op, args, env, r)

\* command == "add"
Add == \E args \in AddArgs : Do("add", args, None, add_contact(args, data))

\* command == "change"
Change ==
  \E args \in ChangeArgs :
    Do("change", args, None, change_contact(args, data))

\* command == "phone"
GetPhone ==
  \E args \in NameArgs : Do("phone", args, None, get_phone(args, data))

\* command == "all"
All == Do("all", << >>, None, show_all(data))

\* command == "add-birthday"
AddBirthday ==
  \E args \in AddBirthdayArgs :
    Do("add-birthday", args, None, add_birthday_cmd(args, data))

\* command == "show-birthday"
ShowBirthday ==
  \E args \in NameArgs :
    Do("show-birthday", args, None, show_birthday(args, data))

\* command == "birthdays", date.today() being one of days
Birthdays(days) ==
  \E today \in days :
    Do("birthdays", << >>, today, birthdays(<< >>, data, today))

Next ==
  \/ Add
  \/ Change
  \/ GetPhone
  \/ All
  \/ AddBirthday
  \/ ShowBirthday
  \/ Birthdays(FewDays)

Spec == Init /\ [][Next]_vars

(* ------------------------------------------- one Record, called directly *)

\* The record is the one of the book { "a": Record("a") }.
InitRecord == data = add_record(<< >>, Record(NameA).rec) /\ last = NoCall

\* A method of the record has run with outcome r and returned value.
Method(op, args, r, value) ==
  /\ Bounded(set_record(data, 1, r.rec), MaxRecordPhones)
  /\ data' = set_record(data, 1, r.rec)
  /\ last' = [op |-> op, args |-> args, env |-> None,
              exc |-> r.exc, msg |-> "", value |-> value]

\* The Phone object at place i of the record, None for 0.
phone_at(rec, i) == IF i = 0 THEN None ELSE rec.phones[i]

RecAddPhone ==
  \E p \in RecPhoneArgs :
    Method("add_phone", <<p>>, add_phone(data[1].rec, p), None)

RecRemovePhone ==
  \E p \in RecPhoneArgs :
    Method("remove_phone", <<p>>, remove_phone(data[1].rec, p), None)

RecEditPhone ==
  \E o \in RecPhoneArgs, n \in RecPhoneArgs :
    Method("edit_phone", <<o, n>>, edit_phone(data[1].rec, o, n), None)

RecFindPhone ==
  \E p \in RecPhoneArgs :
    Method("find_phone", <<p>>, Done(data[1].rec),
           phone_at(data[1].rec, find_phone(data[1].rec, p)))

RecAddBirthday ==
  \E b \in BirthdayArgs :
    Method("add_birthday", <<b>>, add_birthday(data[1].rec, b), None)

NextRecord ==
  \/ RecAddPhone
  \/ RecRemovePhone
  \/ RecEditPhone
  \/ RecFindPhone
  \/ RecAddBirthday

SpecRecord == InitRecord /\ [][NextRecord]_vars

\* How many entries of phones are value.
Count(phones, value) ==
  Cardinality({i \in 1..Len(phones) : phones[i] = value})

\* phones without its entry at place k.
Without(phones, k) ==
  SubSeq(phones, 1, k - 1) \o SubSeq(phones, k + 1, Len(phones))

\* new is a string of 10 ASCII digits.
TenDigits(new) ==
  Len(new) = 10 /\ \A i \in 1..Len(new) : new[i] \in AsciiDigits

\* C1 as stated: after every successful edit_phone(old, new), new being 10
\* digits, find_phone(old) returns None and find_phone(new) returns a phone,
\* duplicates of old and new = old included.
C1_AsStated ==
  (last.op = "edit_phone" /\ last.exc = "" /\ TenDigits(last.args[2]))
    => /\ find_phone(data[1].rec, last.args[1]) = 0
       /\ find_phone(data[1].rec, last.args[2]) # 0

\* C1 as amended: after every successful edit_phone(old, new), find_phone(new)
\* returns a phone, and find_phone(old) returns None exactly when old was in
\* the sequence once and new is not old.
C1_EditPhone ==
  [][(last'.op = "edit_phone" /\ last'.exc = "")
       => /\ find_phone(data'[1].rec, last'.args[2]) # 0
          /\ find_phone(data'[1].rec, last'.args[1]) = 0
               <=> /\ Count(data[1].rec.phones, last'.args[1]) = 1
                   /\ last'.args[1] # last'.args[2]]_vars

\* A record of two phones after a successful edit_phone(old, new), new not
\* old: old is gone and new is there.
C1_Witness ==
  /\ last.op = "edit_phone" /\ last.exc = ""
  /\ TenDigits(last.args[2])
  /\ last.args[1] # last.args[2]
  /\ Len(data[1].rec.phones) = 2
  /\ find_phone(data[1].rec, last.args[1]) = 0
  /\ find_phone(data[1].rec, last.args[2]) # 0

\* C2: edit_phone(old, new) fails exactly when old is not in the sequence or
\* new is no valid phone, and a failed call leaves the phone sequence (and
\* the rest of the record) as it was.
C2_EditPhoneAtomic ==
  [][last'.op = "edit_phone"
       => /\ last'.exc # ""
               <=> \/ Count(data[1].rec.phones, last'.args[1]) = 0
                   \/ ~phone_validation(last'.args[2])
          /\ last'.exc # "" => data' = data]_vars

\* edit_phone has failed on a record that holds old, new being invalid.
C2_Witness ==
  /\ last.op = "edit_phone" /\ last.exc = "ValueError"
  /\ Count(data[1].rec.phones, last.args[1]) > 0
  /\ ~phone_validation(last.args[2])

\* C3: remove_phone(value) raises and changes nothing when no entry is value;
\* otherwise it removes the first entry that is value and nothing else.
C3_RemovePhone ==
  [][last'.op = "remove_phone"
       => IF Count(data[1].rec.phones, last'.args[1]) = 0
            THEN last'.exc = "ValueError" /\ data' = data
          ELSE /\ last'.exc = ""
               /\ \E k \in 1..Len(data[1].rec.phones) :
                    /\ data[1].rec.phones[k] = last'.args[1]
                    /\ \A j \in 1..(k - 1) :
                         data[1].rec.phones[j] # last'.args[1]
                    /\ data' = set_record(data, 1,
                         [data[1].rec EXCEPT
                            !.phones = Without(data[1].rec.phones, k)])]_vars

\* remove_phone(value) has removed the first of several entries that are
\* value, with another phone between them: the later one is still there.
C3_Witness ==
  /\ last.op = "remove_phone" /\ last.exc = ""
  /\ Len(data[1].rec.phones) = 2
  /\ data[1].rec.phones[1] # last.args[1]
  /\ data[1].rec.phones[2] = last.args[1]

(* --------------------------------------- the AddressBook, called directly *)

PhoneLists == UNION {[1..k -> ValidPhones] : k \in 0..MaxPhones}

\* The records a caller can have built with Record(), add_phone() and
\* add_birthday().
RecordValues ==
  {[name |-> n, phones |-> ps, birthday |-> b] :
     n \in Names, ps \in PhoneLists, b \in {None} \cup ValidBirthdays}

InitBook == data = << >> /\ last = NoCall

\* The Record object at place i of the book, None for 0.
record_at(d, i) == IF i = 0 THEN None ELSE d[i].rec

BookAddRecord ==
  \E record \in RecordValues :
    /\ data' = add_record(data, record)
    /\ last' = Call("add_record", <<record>>, None, Return(data', "", None))

BookFind ==
  \E name \in Names :
    /\ data' = data
    /\ last' = Call("find", <<name>>, None,
                    Return(data, "", record_at(data, find(data, name))))

BookDelete ==
  \E name \in Names :
    /\ data' = delete(data, name).data
    /\ last' = Call("delete", <<name>>, None,
                    Return(data', "", delete(data, name).value))

NextBook ==
  \/ BookAddRecord
  \/ BookFind
  \/ BookDelete

SpecBook == InitBook /\ [][NextBook]_vars

\* C9: after add_record(r) the book holds one entry for r's name, find of
\* that name returns r whatever was stored under the name before, no error
\* is raised, and the entries under every other name are as they were.
C9_AddRecordLastWins ==
  [][last'.op = "add_record"
       => /\ last'.exc = ""
          /\ Cardinality({i \in 1..Len(data') :
                            data'[i].key = last'.args[1].name}) = 1
          /\ find(data', last'.args[1].name) # 0
          /\ data'[find(data', last'.args[1].name)].rec = last'.args[1]
          /\ \A n \in Names \ {last'.args[1].name} :
               /\ find(data', n) = 0 <=> find(data, n) = 0
               /\ find(data, n) # 0
                    => data'[find(data', n)].rec = data[find(data, n)].rec]_vars

\* add_record(r2) has run on a book that held a record under r2's name: the
\* name is in the first place of two, so it was entered before the other
\* name, and the entry is r2, with phones the first record did not have.
C9_Witness ==
  /\ last.op = "add_record"
  /\ Len(data) = 2
  /\ data[1].key = last.args[1].name
  /\ data[1].rec = last.args[1]
  /\ Len(data[1].rec.phones) = 2

(* ----------------------------------------- the fields, called directly *)

MaxStrLen == 11

PhoneChars == {"0", "9", "a", " ", "-", "U+00B2", "U+0662"}

\* Strings of one repeated character, one place holding another.
PhoneInputs ==
  {[i \in 1..n |-> IF i = k THEN c ELSE f] :
     n \in 0..MaxStrLen, k \in 1..MaxStrLen, f \in PhoneChars,
     c \in PhoneChars}

NameInputs == {<< >>, <<" ">>, <<" ", " ">>, <<"a">>, <<" ", "a">>}

DayTokens ==
  {<<"0", "1">>, <<"1">>, <<" ", "1">>, <<"2", "9">>, <<"3", "0">>,
   <<"3", "1">>, <<"3", "2">>, <<"0", "0">>, <<"2", "U+0662">>,
   <<"0", "U+0662">>, << >>, <<"a">>, <<"0", "0", "1">>}

MonthTokens ==
  {<<"0", "2">>, <<"2">>, <<"0", "4">>, <<"1", "2">>, <<"1", "3">>,
   <<"0", "0">>, << >>, <<"U+0662">>}

YearTokens ==
  {<<"2", "0", "2", "3">>, <<"2", "0", "2", "4">>, <<"1", "9", "0", "0">>,
   <<"2", "0", "0", "0">>, <<"2", "4">>, <<"2", "0", "2", "4", "5">>,
   <<"2", "0", "U+0662", "4">>, <<"2", "0", "2", "4", " ">>}

Separators == {".", "-"}

BirthdayInputs ==
  {d \o <<a>> \o m \o <<b>> \o y :
     d \in DayTokens, a \in Separators, m \in MonthTokens,
     b \in Separators, y \in YearTokens}

InitFields == data = << >> /\ last = NoCall

\* A Field has been constructed from value, with outcome f.
Made(op, value, f) ==
  /\ data' = data
  /\ last' = [op |-> op, args |-> <<value>>, env |-> None,
              exc |-> f.exc, msg |-> "", value |-> f.value]

NewName == \E value \in NameInputs : Made("Name", value, Name(value))

NewPhone == \E value \in PhoneInputs : Made("Phone", value, Phone(value))

NewBirthday ==
  \E value \in BirthdayInputs : Made("Birthday", value, Birthday(value))

NextFields ==
  \/ NewName
  \/ NewPhone
  \/ NewBirthday

SpecFields == InitFields /\ [][NextFields]_vars

\* C7 as stated: Phone accepts a string exactly when it has 10 characters,
\* each an ASCII digit 0-9, and otherwise fails with ValueError.
C7_AsStated ==
  last.op = "Phone"
    => /\ last.exc \in {"", "ValueError"}
       /\ last.exc = ""
            <=> /\ Len(last.args[1]) = PhoneLen
                /\ \A i \in 1..Len(last.args[1]) :
                     last.args[1][i] \in AsciiDigits

\* s is DD.MM.YYYY, two digits, two digits and four, and names a real date.
IsDDMMYYYY(s) ==
  /\ Len(s) = 10
  /\ s[3] = "." /\ s[6] = "."
  /\ \A i \in {1, 2, 4, 5, 7, 8, 9, 10} : s[i] \in AsciiDigits
  /\ valid_date(int(SubSeq(s, 7, 10)), int(SubSeq(s, 4, 5)),
                int(SubSeq(s, 1, 2)))

\* C8 as stated: Birthday accepts a string exactly when it is DD.MM.YYYY and
\* names a real calendar date, and keeps only such strings.
C8_AsStated ==
  last.op = "Birthday"
    => /\ last.exc = "" <=> IsDDMMYYYY(last.args[1])
       /\ last.exc = "" => IsDDMMYYYY(last.value)

(* ------------------------------------------- the upcoming-birthdays query *)

Feb29 == <<"2", "9", ".", "0", "2", ".", "2", "0", "2", "0">>

June12 == <<"1", "2", ".", "0", "6", ".", "1", "9", "9", "0">>

June15 == <<"1", "5", ".", "0", "6", ".", "1", "9", "9", "0">>

June16 == <<"1", "6", ".", "0", "6", ".", "1", "9", "9", "1">>

Jan1 == <<"0", "1", ".", "0", "1", ".", "2", "0", "0", "0">>

BirthdayPool == {None, Feb29, June12, June15, June16, Jan1}

Entry(n, b) ==
  [key |-> n, rec |-> [name |-> n, phones |-> << >>, birthday |-> b]]

\* Books of at most two records, in either order.
Collections ==
  {<< >>} \cup {<<Entry(n, b)>> : n \in Names, b \in BirthdayPool}
    \cup {<<Entry(nm[1], b), Entry(nm[2], c)>> :
            nm \in {x \in Names \X Names : x[1] # x[2]},
            b \in BirthdayPool, c \in BirthdayPool}

TodayYears == {2023, 2024}

\* The days around the new year, the end of February and mid June.
TodayDays ==
  ({12} \X (24..31)) \cup ({1} \X (1..2)) \cup ({2} \X (21..29))
    \cup ({3} \X (1..2)) \cup ({6} \X (4..17))

Todays ==
  {Day(y, md[1], md[2]) : y \in TodayYears,
     md \in {x \in TodayDays :
               \A yy \in TodayYears : valid_date(yy, x[1], x[2])}}
    \cup {Day(2024, 2, 29)}

InitBirthdays == data \in Collections /\ last = NoCall

NextBirthdays == Birthdays(Todays)

SpecBirthdays == InitBirthdays /\ [][NextBirthdays]_vars

\* The month and day of a stored birthday occur in year y.
OccursIn(b, y) == valid_date(y, strptime(b).date.month, strptime(b).date.day)

InYear(b, y) == [strptime(b).date EXCEPT !.year = y]

\* The next occurrence of birthday b is a calendar date.
HasOccurrence(b, today) ==
  /\ OccursIn(b, today.year)
  /\ toordinal(InYear(b, today.year)) < toordinal(today)
       => OccursIn(b, today.year + 1)

\* This year's month/day, or next year's if this year's is before today.
NextOccurrence(b, today) ==
  IF toordinal(InYear(b, today.year)) < toordinal(today)
    THEN InYear(b, today.year + 1)
  ELSE InYear(b, today.year)

\* The occurrence itself from Monday to Friday, the Monday after otherwise.
Congratulation(dt) ==
  IF weekday(dt) = 5 THEN add_days(dt, 2)
  ELSE IF weekday(dt) = 6 THEN add_days(dt, 1)
  ELSE dt

\* The record has a birthday whose next occurrence is 0 to 7 days away.
IsUpcoming(rec, today) ==
  /\ rec.birthday # None
  /\ HasOccurrence(rec.birthday, today)
  /\ toordinal(NextOccurrence(rec.birthday, today)) - toordinal(today)
       \in 0..Window

\* The entries C4 asks for, in the book's order.
RECURSIVE Expected(_, _)
Expected(d, today) ==
  IF Len(d) = 0 THEN << >>
  ELSE Expected(SubSeq(d, 1, Len(d) - 1), today)
         \o (IF IsUpcoming(d[Len(d)].rec, today)
               THEN <<[name |-> d[Len(d)].key,
                       birthday |-> strftime(Congratulation(
                         NextOccurrence(d[Len(d)].rec.birthday, today)))]>>
             ELSE << >>)

\* The names of the records whose birthday has no next occurrence that is a
\* calendar date: C4 says nothing of their entries.
Unsettled(d, today) ==
  {d[i].key : i \in {j \in 1..Len(d) :
                       /\ d[j].rec.birthday # None
                       /\ ~HasOccurrence(d[j].rec.birthday, today)}}

Settled(e, names) == e.name \notin names

\* C4 as stated: for every book and every today the query returns, in the
\* book's order, one entry for each record whose birthday next occurs 0 to 7
\* days after today and none for any other, dated the occurrence or the
\* Monday after a weekend, and changes no stored birthday.
C4_AsStated ==
  [][last'.op = "birthdays"
       => /\ data' = data
          /\ last'.msg = ""
          /\ LET names == Unsettled(data, last'.env)
                 Keep(e) == Settled(e, names)
             IN SelectSeq(last'.value, Keep)
                  = SelectSeq(Expected(data, last'.env), Keep)]_vars

\* C5 as stated: with a birthday of 29 February in the book, the query
\* returns a result list whatever today is.
C5_AsStated ==
  (/\ last.op = "birthdays"
   /\ \E i \in 1..Len(data) :
        /\ data[i].rec.birthday # None
        /\ strptime(data[i].rec.birthday).date.month = 2
        /\ strptime(data[i].rec.birthday).date.day = 29)
    => last.msg = ""

(* ----------------------------------------------- claims on the commands *)

ErrorMessages ==
  {"Contact is not found.", "Insufficient data", "Enter a name of contact.",
   "Contact not found."}

\* C6 as stated: a command that ends in an error message leaves the book as
\* it was before the command; "add <name> <phone>" with a new name and an
\* invalid phone leaves no record for the name.
C6_AsStated ==
  [][last'.msg \in ErrorMessages => data' = data]_vars

\* C10: every phone of every record is a string of 10 numeric characters,
\* and every record is stored under its own name.
C10_PhonesAndKeys ==
  \A i \in 1..Len(data) :
    /\ data[i].key = data[i].rec.name
    /\ \A k \in 1..Len(data[i].rec.phones) :
         /\ Len(data[i].rec.phones[k]) = 10
         /\ \A c \in 1..Len(data[i].rec.phones[k]) :
              data[i].rec.phones[k][c] \in NumericChars

\* Two records, each with two phones, after a command that failed.
C10_Witness ==
  /\ Len(data) = 2
  /\ \A i \in 1..2 : Len(data[i].rec.phones) = 2
  /\ last.msg = "Insufficient data"
  /\ last.op = "change"

====
